---- MODULE Spec2Model ----
(***************************************************************************)
(* Row decoder of the DX Film Edge barcode                                 *)
(* (core/src/oned/ODDXFilmEdgeReader.cpp, DXFilmEdgeReader::decodePattern).*)
(*                                                                         *)
(* The persistent state is DXFEState (foundClock, containsHFNumber,        *)
(* clockPixelsInFront, pixelTolerance).  One action, decodePattern, models *)
(* one call of the reader on one row.  A row is the run-length vector of a *)
(* scan line: element 1 is the leading white run, then bars and spaces     *)
(* alternate, and the last element is the trailing white run.              *)
(***************************************************************************)
EXTENDS Integers, Sequences, FiniteSets, TLC

VARIABLES
    foundClock,          \* DXFEState::foundClock
    containsHFNumber,    \* DXFEState::containsHFNumber
    clockPixelsInFront,  \* DXFEState::clockPixelsInFront
    pixelTolerance,      \* DXFEState::pixelTolerance
    call,                \* the arguments of the last call (row number, row)
    out,                 \* what the last call returned and how far it got
    clockRow,            \* history: row number of the call that set foundClock
    clocksShown,         \* history: clocks present in the rows presented so far
    clockStop            \* history: right edge (pixelsTillEnd) of the recorded clock

state == <<foundClock, containsHFNumber, clockPixelsInFront, pixelTolerance>>
vars == <<foundClock, containsHFNumber, clockPixelsInFront, pixelTolerance,
          call, out, clockRow, clocksShown, clockStop>>

(***************************************************************************)
(* Bounds of the model.                                                    *)
(***************************************************************************)
MaxRow == 1
MaxClockUnit == 3
MaxDataUnit == 2

(***************************************************************************)
(* Arithmetic helpers.                                                     *)
(***************************************************************************)
Abs(x) == IF x < 0 THEN -x ELSE x

Max(a, b) == IF a > b THEN a ELSE b

RECURSIVE SumRange(_, _, _)
SumRange(s, i, j) == IF i > j THEN 0 ELSE s[i] + SumRange(s, i + 1, j)

Repeat(x, n) == [i \in 1..n |-> x]

Scale(s, u) == [i \in 1..Len(s) |-> s[i] * u]

(***************************************************************************)
(* Fixed patterns: widths and their unit sum (FixedPattern<N, SUM>).       *)
(***************************************************************************)
CLOCK_PATTERN_HF == [widths |-> <<5>> \o Repeat(1, 23) \o <<3>>, sum |-> 31]

CLOCK_PATTERN_NO_HF == [widths |-> <<5>> \o Repeat(1, 15) \o <<3>>, sum |-> 23]

START_PATTERN_ == [widths |-> <<1, 1, 1, 1, 1>>, sum |-> 5]

STOP_PATTERN_ == [widths |-> <<1, 1, 1>>, sum |-> 3]

minCharCount == 5

\* minQuietZone = 0.4, kept as the fraction 2/5
minQuietZone == <<2, 5>>

START_PATTERN_SIZE == 5

(***************************************************************************)
(* PatternView: a cursor (data, size) over a row.  data is the 1-based     *)
(* index of the first element of the window; data = 0 is the null view.    *)
(***************************************************************************)
NullView == [row |-> <<>>, data |-> 0, size |-> 0]

RowView(row) == [row |-> row, data |-> 2, size |-> Len(row) - 1]

isValid(v) == v.data >= 1 /\ v.data + v.size <= Len(v.row) + 1

shift(v, n) == [v EXCEPT !.data = v.data + n]

subView(v, offset, size) == [v EXCEPT !.data = v.data + offset, !.size = size]

pixelsInFront(v) == SumRange(v.row, 1, v.data - 1)

pixelsTillEnd(v) == SumRange(v.row, 1, v.data + v.size - 1) - 1

isAtFirstBar(v) == v.data = 2

isAtLastBar(v) == v.data + v.size = Len(v.row)

\* IsPattern: the window's runs are proportional to the pattern, within half
\* a module plus half a pixel, and the quiet zone is wide enough.
\* moduleSize = width / SUM; every comparison is cleared of its denominators.
IsPattern(v, pattern, spaceInPixel, unbounded, q) ==
    LET N     == Len(pattern.widths)
        width == SumRange(v.row, v.data, v.data + N - 1)
    IN  /\ ~(pattern.sum > N /\ width < pattern.sum)
        /\ unbounded \/ ~(q[2] * pattern.sum * (spaceInPixel + 1) < q[1] * width)
        /\ \A x \in 1..N :
              2 * Abs(pattern.sum * v.row[v.data + x - 1] - pattern.widths[x] * width)
                 <= width + pattern.sum

IsRightGuard(v, pattern, q) ==
    IF isAtLastBar(v)
    THEN IsPattern(v, pattern, 0, TRUE, q)
    ELSE IsPattern(v, pattern, v.row[v.data + v.size], FALSE, q)

\* FindLeftGuard: the first window, moving from bar to bar, that is the
\* pattern with its quiet zone in front; the null view when there is none.
RECURSIVE FindFrom(_, _, _, _, _)
FindFrom(v, window, endIdx, pattern, q) ==
    IF ~(window.data < endIdx) THEN NullView
    ELSE IF IsPattern(window, pattern, v.row[window.data - 1], FALSE, q) THEN window
    ELSE FindFrom(v, shift(window, 2), endIdx, pattern, q)

FindLeftGuard(v, minSize, pattern, q) ==
    LET LEN    == Len(pattern.widths)
        need   == Max(minSize, LEN)
        window == subView(v, 0, LEN)
    IN  IF ~isValid(v) \/ v.size < need THEN NullView
        ELSE IF isAtFirstBar(window) /\ IsPattern(window, pattern, 0, TRUE, q) THEN window
        ELSE FindFrom(v, window, v.data + v.size - need, pattern, q)

(***************************************************************************)
(* DXFEState and the clock detection of decodePattern.                     *)
(***************************************************************************)
DXFEState == [foundClock |-> FALSE, containsHFNumber |-> FALSE,
              clockPixelsInFront |-> 0, pixelTolerance |-> 0]

\* The clock FindLeftGuard finds in the view: the HF pattern first, then the
\* short one.
findClock(next) ==
    LET hf == FindLeftGuard(next, minCharCount, CLOCK_PATTERN_HF, minQuietZone)
    IN  IF isValid(hf) THEN [clock |-> hf, hf |-> TRUE]
        ELSE [clock |-> FindLeftGuard(next, minCharCount, CLOCK_PATTERN_NO_HF, minQuietZone),
              hf |-> FALSE]

clockTolerance(clock) == (pixelsTillEnd(clock) - pixelsInFront(clock)) \div 23

\* a reader that looks for the clock on every row
detectClock_Always(st, next) ==
    LET f == findClock(next)
    IN  IF isValid(f.clock)
        THEN [foundClock         |-> TRUE,
              containsHFNumber   |-> f.hf,
              clockPixelsInFront |-> pixelsInFront(f.clock),
              pixelTolerance     |-> clockTolerance(f.clock)]
        ELSE st

detectClock(st, next) ==
    IF st.foundClock THEN st
    ELSE LET f == findClock(next)
         IN  IF isValid(f.clock)
             THEN [foundClock         |-> TRUE,
                   containsHFNumber   |-> f.hf,
                   clockPixelsInFront |-> pixelsInFront(f.clock),
                   pixelTolerance     |-> clockTolerance(f.clock)]
             ELSE st

\* a reader that goes on to the data without a clock
clockMissing_Dropped(st) == FALSE

\* if (!foundClock) return {};
clockMissing(st) == ~st.foundClock

\* The start pattern lies within the tolerance of the clock.
withinTolerance(st, xStart) ==
    /\ xStart - (st.pixelTolerance \div 2) < st.clockPixelsInFront
    /\ xStart + (st.pixelTolerance \div 2) > st.clockPixelsInFront

(***************************************************************************)
(* Bit recovery.                                                           *)
(***************************************************************************)
signalSize(hf) == IF hf THEN 23 ELSE 15

\* current_bar_width: the unit count of a run of raw pixels.
barWidth(raw, per_bar_raw_width) ==
    raw \div per_bar_raw_width
      + (IF raw % per_bar_raw_width > per_bar_raw_width \div 2 THEN 1 ELSE 0)

\* an inner loop without the bound on the size of the vector
pushBits_Unclamped(signal_data, black, w, L) == signal_data \o Repeat(black, w)

\* The inner loop: push the colour w times, never past L bits.
pushBits(signal_data, black, w, L) ==
    signal_data \o Repeat(black, IF Len(signal_data) + w > L THEN L - Len(signal_data) ELSE w)

\* a loop that goes on to the next run when a run rounds to zero units
RECURSIVE recoverBits_SkipsZero(_, _, _, _)
recoverBits_SkipsZero(next, per_bar_raw_width, L, r) ==
    IF ~(r.signal_length < L) THEN [r EXCEPT !.next = next]
    ELSE IF ~isValid(next) THEN [r EXCEPT !.next = next, !.why = "short"]
    ELSE LET raw == next.row[next.data]
             w   == barWidth(raw, per_bar_raw_width)
         IN  recoverBits_SkipsZero(shift(next, 1), per_bar_raw_width, L,
                    [r EXCEPT !.signal_length = r.signal_length + w,
                              !.signal_data   = pushBits(r.signal_data, r.black, w, L),
                              !.black         = ~r.black,
                              !.runs          = Append(r.runs, <<raw, w>>)])

\* while (signal_length < L): the record of where the loop ended.
RECURSIVE recoverBits(_, _, _, _)
recoverBits(next, per_bar_raw_width, L, r) ==
    IF ~(r.signal_length < L) THEN [r EXCEPT !.next = next]
    ELSE IF ~isValid(next) THEN [r EXCEPT !.next = next, !.why = "short"]
    ELSE LET raw == next.row[next.data]
             w   == barWidth(raw, per_bar_raw_width)
         IN  IF w = 0 THEN [r EXCEPT !.next = next, !.why = "zero",
                                     !.runs = Append(r.runs, <<raw, w>>)]
             ELSE recoverBits(shift(next, 1), per_bar_raw_width, L,
                    [r EXCEPT !.signal_length = r.signal_length + w,
                              !.signal_data   = pushBits(r.signal_data, r.black, w, L),
                              !.black         = ~r.black,
                              !.runs          = Append(r.runs, <<raw, w>>)])

NoRecovery == [next |-> NullView, why |-> "ok", signal_length |-> 0,
               signal_data |-> <<>>, black |-> FALSE, runs |-> <<>>]

(***************************************************************************)
(* Validation of the recovered bits and the text.                          *)
(***************************************************************************)
at(signal_data, i) == signal_data[i + 1]

\* std::accumulate(begin + from, begin + to, 0)
RECURSIVE accumulate(_, _, _)
accumulate(signal_data, from, to) ==
    IF from >= to THEN 0
    ELSE (IF at(signal_data, from) THEN 1 ELSE 0) + accumulate(signal_data, from + 1, to)

\* fromVector(begin + from, begin + to): the bits read MSB first.
RECURSIVE fromVector(_, _, _)
fromVector(signal_data, from, to) ==
    IF from >= to THEN 0
    ELSE (IF at(signal_data, from) THEN 2 ^ (to - from - 1) ELSE 0)
           + fromVector(signal_data, from + 1, to)

separatorsClear(signal_data, hf) ==
    /\ ~(at(signal_data, 0) \/ at(signal_data, 8))
    /\ ~(hf /\ (at(signal_data, 20) \/ at(signal_data, 22)))
    /\ ~(~hf /\ (at(signal_data, 12) \/ at(signal_data, 14)))

bit(n) == n = 1

signal_clock ==
    [i \in 1..23 |-> bit(<<0, 1, 0, 1, 0, 1, 0, 1, 0, 1, 0, 1, 0, 1, 0, 1, 1, 1, 0, 0, 0, 0, 0>>[i])]

\* a reader without the guard against the clock read as data
isClockSignal_Unguarded(signal_data, hf) == FALSE

isClockSignal(signal_data, hf) == hf /\ signal_clock = signal_data

\* a parity sum that runs one bit too far, over the parity bit itself
parityHolds_OneTooFar(signal_data) ==
    LET n          == Len(signal_data)
        signal_sum == accumulate(signal_data, 0, n - 1)
        parity_bit == IF at(signal_data, n - 2) THEN 1 ELSE 0
    IN  ~(signal_sum % 2 # parity_bit)

\* a check that takes the last bit of the vector for the parity bit
parityHolds_LastBit(signal_data) ==
    LET n          == Len(signal_data)
        signal_sum == accumulate(signal_data, 0, n - 1)
        parity_bit == IF at(signal_data, n - 1) THEN 1 ELSE 0
    IN  ~(signal_sum % 2 # parity_bit)

parityHolds(signal_data) ==
    LET n          == Len(signal_data)
        signal_sum == accumulate(signal_data, 0, n - 2)
        parity_bit == IF at(signal_data, n - 2) THEN 1 ELSE 0
    IN  ~(signal_sum % 2 # parity_bit)

product_number(signal_data) == fromVector(signal_data, 1, 8)

generation_number(signal_data) == fromVector(signal_data, 9, 13)

half_frame_number(signal_data) == fromVector(signal_data, 13, 20)

\* the checks on the bit vector without the test of the product number
validate_AnyProduct(signal_data, hf) ==
    IF Len(signal_data) < signalSize(hf) THEN "size"
    ELSE IF ~separatorsClear(signal_data, hf) THEN "separator"
    ELSE IF isClockSignal(signal_data, hf) THEN "clock"
    ELSE IF ~parityHolds(signal_data) THEN "parity"
    ELSE "ok"

\* The checks on the bit vector, in the order of the code; "ok" when all pass.
validate(signal_data, hf) ==
    IF Len(signal_data) < signalSize(hf) THEN "size"
    ELSE IF ~separatorsClear(signal_data, hf) THEN "separator"
    ELSE IF isClockSignal(signal_data, hf) THEN "clock"
    ELSE IF ~parityHolds(signal_data) THEN "parity"
    ELSE IF product_number(signal_data) = 0 THEN "product"
    ELSE "ok"

resultText(signal_data, hf) ==
    LET txt == ToString(product_number(signal_data)) \o "-"
                 \o ToString(generation_number(signal_data))
        half_frame == half_frame_number(signal_data)
    IN  IF hf
        THEN txt \o "/" \o ToString(half_frame \div 2)
                 \o (IF half_frame % 2 # 0 THEN "A" ELSE "")
        ELSE txt

(***************************************************************************)
(* The data path of decodePattern, after clock detection.                  *)
(***************************************************************************)
NoResult == [valid |-> FALSE, text |-> "", rowNumber |-> -1, xStart |-> -1, xStop |-> -1]

Result(txt, rowNumber, xStart, xStop) ==
    [valid |-> TRUE, text |-> txt, rowNumber |-> rowNumber, xStart |-> xStart, xStop |-> xStop]

\* What a call returns (result), the state it leaves (st), and how far it
\* got: why is "ok" or the check that ended the call.
Return(st, result, why, xStart, per, r) ==
    [st |-> st, result |-> result, why |-> why, xStart |-> xStart, per |-> per,
     signal_length |-> r.signal_length, signal_data |-> r.signal_data, runs |-> r.runs]

dataPath(rowNumber, view, st) ==
    IF clockMissing(st) THEN Return(st, NoResult, "noclock", -1, 0, NoRecovery)
    ELSE
    LET next == FindLeftGuard(view, minCharCount, START_PATTERN_, minQuietZone)
    IN  IF ~isValid(next) THEN Return(st, NoResult, "nostart", -1, 0, NoRecovery)
    ELSE
    LET xStart == pixelsInFront(next)
    IN  IF ~withinTolerance(st, xStart)
        THEN Return(st, NoResult, "misaligned", xStart, 0, NoRecovery)
    ELSE
    LET per_bar_raw_width == next.row[next.data]
        signal_begin      == shift(next, START_PATTERN_SIZE)
    IN  IF ~isValid(signal_begin)
        THEN Return(st, NoResult, "short", xStart, per_bar_raw_width, NoRecovery)
    ELSE
    LET hf == st.containsHFNumber
        r  == recoverBits(signal_begin, per_bar_raw_width, signalSize(hf), NoRecovery)
    IN  IF r.why # "ok" THEN Return(st, NoResult, r.why, xStart, per_bar_raw_width, r)
    ELSE
    LET stop == subView(r.next, 0, 3)
    IN  IF ~IsRightGuard(stop, STOP_PATTERN_, minQuietZone)
        THEN Return(st, NoResult, "nostop", xStart, per_bar_raw_width, r)
    ELSE
    LET v == validate(r.signal_data, hf)
    IN  IF v # "ok" THEN Return(st, NoResult, v, xStart, per_bar_raw_width, r)
        ELSE Return(st,
                    Result(resultText(r.signal_data, hf), rowNumber, xStart, pixelsTillEnd(stop)),
                    "ok", xStart, per_bar_raw_width, r)

\* a data path that records the start of the data track as the clock's
\* position before it has accepted the track
decodeData_WritesEarly(rowNumber, view, st) ==
    LET d == dataPath(rowNumber, view, st)
    IN  IF d.xStart >= 0 THEN [d EXCEPT !.st.clockPixelsInFront = d.xStart] ELSE d

\* The call from the clock gate on: what it returns and the state it leaves.
decodeData(rowNumber, view, st) == dataPath(rowNumber, view, st)

(***************************************************************************)
(* Rows presented to the reader.  A row is described by what is printed on *)
(* it: a clock track, a data track or nothing.                             *)
(***************************************************************************)
\* n as `width` bits, MSB first
RECURSIVE ToBits(_, _)
ToBits(n, width) ==
    IF width = 0 THEN <<>> ELSE Append(ToBits(n \div 2, width - 1), n % 2 = 1)

Ones(s) == Cardinality({i \in 1..Len(s) : s[i]})

\* The payload that encodes the fields, with white separators and the parity
\* bit that makes the number of black bits before it even.
Payload(hf, dx1, dx2, half) ==
    LET body == <<FALSE>> \o ToBits(dx1, 7) \o <<FALSE>> \o ToBits(dx2, 4)
                  \o (IF hf THEN ToBits(half, 7) \o <<FALSE>> ELSE <<>>)
    IN  body \o <<Ones(body) % 2 = 1, FALSE>>

Flip(s, i) == IF i \in 0..(Len(s) - 1) THEN [s EXCEPT ![i + 1] = ~s[i + 1]] ELSE s

\* run lengths of a colour sequence
RECURSIVE RunLengths(_)
RunLengths(s) ==
    IF s = <<>> THEN <<>>
    ELSE LET rest == RunLengths(Tail(s))
         IN  IF Len(s) > 1 /\ s[1] = s[2]
             THEN <<rest[1] + 1>> \o Tail(rest)
             ELSE <<1>> \o rest

Tweaked(runs, tweak) ==
    [i \in 1..Len(runs) |-> IF i = tweak[1] THEN runs[i] + tweak[2] ELSE runs[i]]

\* What follows the payload: 0 a lone bar, 1 the stop pattern, 2 a stop
\* pattern whose first bar is four units wide.
StopColours ==
    [k \in 0..2 |-> IF k = 0 THEN <<TRUE>>
                    ELSE IF k = 1 THEN <<TRUE, FALSE, TRUE>>
                    ELSE <<TRUE, TRUE, TRUE, TRUE, FALSE, TRUE>>]

PayloadOf(in) == Flip(Payload(in.hf, in.dx1, in.dx2, in.half), in.flip)

RowOf(in) ==
    IF in.kind = "clock"
    THEN <<in.x0>>
           \o Scale(IF in.hf THEN CLOCK_PATTERN_HF.widths ELSE CLOCK_PATTERN_NO_HF.widths, in.u)
           \o <<in.tail>>
    ELSE IF in.kind = "data"
    THEN LET colours == <<TRUE, FALSE, TRUE, FALSE, TRUE>> \o PayloadOf(in)
                          \o StopColours[in.stop]
         IN  <<in.x0>> \o Tweaked(Scale(RunLengths(colours), in.u), in.tweak) \o <<in.tail>>
    ELSE <<in.x0, in.u, in.tail>>

ClockIn(hf, u, x0) ==
    [kind |-> "clock", hf |-> hf, u |-> u, x0 |-> x0, tail |-> 4,
     dx1 |-> 0, dx2 |-> 0, half |-> 0, flip |-> -1, tweak |-> <<0, 0>>, stop |-> 1]

DataIn(hf, dx1, dx2, half, flip, u, x0, tweak, stop) ==
    [kind |-> "data", hf |-> hf, u |-> u, x0 |-> x0, tail |-> 4,
     dx1 |-> dx1, dx2 |-> dx2, half |-> half, flip |-> flip, tweak |-> tweak, stop |-> stop]

BlankIn == [ClockIn(FALSE, 1, 4) EXCEPT !.kind = "blank"]

NoTweak == <<0, 0>>

ClockPositions == {4, 9}

DataPositions == {4, 5, 6, 9}

ClockInputs ==
    {ClockIn(hf, u, x0) : hf \in BOOLEAN, u \in 1..MaxClockUnit, x0 \in ClockPositions}

\* A well-formed data track.
GoodData(hf, dx1, dx2, half, u, x0) == DataIn(hf, dx1, dx2, half, -1, u, x0, NoTweak, 1)

\* Damaged data tracks at the first clock position, one for each check of
\* the data path: parity, product number, short view, stop guard, separator,
\* the clock read as data, a run of zero units.
DamagedInputs ==
    {DataIn(TRUE, 79, 2, 23, 5, 1, 4, NoTweak, 1),
     DataIn(FALSE, 79, 2, 23, 5, 1, 4, NoTweak, 1),
     DataIn(TRUE, 0, 2, 23, -1, 1, 4, NoTweak, 1),
     DataIn(TRUE, 79, 2, 23, -1, 1, 4, NoTweak, 0),
     DataIn(TRUE, 79, 2, 23, -1, 1, 4, NoTweak, 2),
     DataIn(TRUE, 79, 2, 23, 8, 1, 4, NoTweak, 1),
     DataIn(TRUE, 85, 10, 92, -1, 1, 4, NoTweak, 1),
     DataIn(TRUE, 79, 2, 23, -1, 2, 4, <<6, -1>>, 1)}

\* Rows of the general specification: every clock, well-formed data tracks at
\* every position, the damaged ones and an empty row.
Inputs ==
    ClockInputs
      \cup {GoodData(hf, 79, 2, 23, 1, x0) : hf \in BOOLEAN, x0 \in DataPositions}
      \cup DamagedInputs
      \cup {BlankIn}

\* Rows of the signal specification: one clock of each kind, and data tracks
\* at the clock's position over a range of fields, single-bit flips, run
\* widths off by a pixel and damaged stop guards.
DX1Values == {0, 1, 79, 85, 115, 127}

DX2Values == {0, 3, 10, 15}

HalfValues == {0, 23, 92, 127}

\* A well-formed track whose last payload run is one pixel too wide.
OversizedLast(hf, u) ==
    DataIn(hf, 79, 2, 23, -1, u, 4, <<5 + Len(RunLengths(Payload(hf, 79, 2, 23))), 1>>, 1)

SignalInputs ==
    {ClockIn(hf, MaxClockUnit, 4) : hf \in BOOLEAN}
      \cup {GoodData(TRUE, dx1, dx2, half, 1, 4) :
               dx1 \in DX1Values, dx2 \in DX2Values, half \in HalfValues}
      \cup {GoodData(FALSE, dx1, dx2, 0, 1, 4) : dx1 \in DX1Values, dx2 \in DX2Values}
      \cup {DataIn(TRUE, 115, 10, 23, flip, 1, 4, NoTweak, 1) : flip \in 0..22}
      \cup {DataIn(FALSE, 79, 2, 0, flip, 1, 4, NoTweak, 1) : flip \in 0..14}
      \cup {DataIn(hf, 79, 2, 23, -1, u, 4, <<k, delta>>, 1) :
               hf \in BOOLEAN, u \in 2..MaxDataUnit, k \in 6..8, delta \in {-1, 1}}
      \cup {DataIn(hf, 79, 2, 23, -1, 1, 4, NoTweak, stop) : hf \in BOOLEAN, stop \in {0, 2}}
      \cup {OversizedLast(hf, 1) : hf \in BOOLEAN}

RowNumbers == 0..MaxRow

(***************************************************************************)
(* The state machine: one action, a call of decodePattern on a row.        *)
(***************************************************************************)
NoCall == [rowNumber |-> -1, in |-> BlankIn]

Init ==
    /\ foundClock = DXFEState.foundClock
    /\ containsHFNumber = DXFEState.containsHFNumber
    /\ clockPixelsInFront = DXFEState.clockPixelsInFront
    /\ pixelTolerance = DXFEState.pixelTolerance
    /\ call = NoCall
    /\ out = [Return(DXFEState, NoResult, "none", -1, 0, NoRecovery) EXCEPT !.st = 0]
    /\ clockRow = -1
    /\ clocksShown = {}
    /\ clockStop = -1

Current ==
    [foundClock |-> foundClock, containsHFNumber |-> containsHFNumber,
     clockPixelsInFront |-> clockPixelsInFront, pixelTolerance |-> pixelTolerance]

decodePattern(rowNumber, in) ==
    \E next \in {RowView(RowOf(in))} :
    \E d \in {decodeData(rowNumber, next, detectClock(Current, next))} :
    \E shown \in {findClock(next).clock} :
        /\ foundClock' = d.st.foundClock
        /\ containsHFNumber' = d.st.containsHFNumber
        /\ clockPixelsInFront' = d.st.clockPixelsInFront
        /\ pixelTolerance' = d.st.pixelTolerance
        /\ call' = [rowNumber |-> rowNumber, in |-> in]
        /\ out' = [d EXCEPT !.st = 0]
        /\ clockRow' = IF ~foundClock /\ d.st.foundClock THEN rowNumber ELSE clockRow
        /\ clocksShown' = IF isValid(shown)
                          THEN clocksShown \cup {pixelsInFront(shown)}
                          ELSE clocksShown
        /\ clockStop' = IF ~foundClock /\ d.st.foundClock THEN pixelsTillEnd(shown)
                        ELSE clockStop

Next == \E rowNumber \in RowNumbers, in \in Inputs : decodePattern(rowNumber, in)

Spec == Init /\ [][Next]_vars

NextSignal == \E in \in SignalInputs : decodePattern(MaxRow, in)

SpecSignal == Init /\ [][NextSignal]_vars

(***************************************************************************)
(* The parity check on its own, as a function of the bit vector: out holds *)
(* the vector the check is given and the verdict it returns.               *)
(***************************************************************************)
\* the most bits set in a vector given to the check
MaxOnes == 3

checked(signal_data) ==
    [out EXCEPT !.signal_data = signal_data,
                !.why = IF ~parityHolds(signal_data) THEN "parity" ELSE "ok"]

InitParity ==
    /\ foundClock = DXFEState.foundClock
    /\ containsHFNumber = DXFEState.containsHFNumber
    /\ clockPixelsInFront = DXFEState.clockPixelsInFront
    /\ pixelTolerance = DXFEState.pixelTolerance
    /\ call = NoCall
    /\ clockRow = -1
    /\ clocksShown = {}
    /\ clockStop = -1
    /\ \E hf \in BOOLEAN :
          LET zero == Repeat(FALSE, signalSize(hf))
          IN  out = [Return(DXFEState, NoResult, "none", -1, 0, NoRecovery)
                        EXCEPT !.st = 0, !.signal_data = zero,
                               !.why = IF ~parityHolds(zero) THEN "parity" ELSE "ok"]

\* the check applied to the vector with one more bit set
checkParity(i) ==
    /\ i < Len(out.signal_data)
    /\ ~at(out.signal_data, i)
    /\ Cardinality({j \in 1..Len(out.signal_data) : out.signal_data[j]}) < MaxOnes
    /\ out' = checked(Flip(out.signal_data, i))
    /\ UNCHANGED <<state, call, clockRow, clocksShown, clockStop>>

NextParity == \E i \in 0..(signalSize(TRUE) - 1) : checkParity(i)

SpecParity == InitParity /\ [][NextParity]_vars

(***************************************************************************)
(* Properties.                                                             *)
(***************************************************************************)
Called == call.rowNumber >= 0

Input == call.in

\* The last row carried a data track over the payload length of the recorded
\* clock, at the clock's own start position.
AlignedData ==
    /\ Called /\ Input.kind = "data" /\ foundClock
    /\ Input.hf = containsHFNumber
    /\ Input.x0 = clockPixelsInFront

\* C1: Clock-first gate.  A call returns a result only if some row presented
\* so far (this one included) carried a clock; while no clock has been seen,
\* every call, whatever its row holds, ends at the clock gate with no result.
C1_ClockFirstGate ==
    /\ out.result.valid => clocksShown # {} /\ foundClock
    /\ (Called /\ clocksShown = {}) => (~out.result.valid /\ out.why = "noclock")

\* C1 witness: a well-formed data track was presented before any clock and
\* the call returned nothing.
C1_Witness ==
    /\ Called /\ clocksShown = {}
    /\ Input.kind = "data" /\ Input.flip = -1 /\ Input.stop = 1 /\ Input.tweak = NoTweak
    /\ Input.dx1 > 0
    /\ ~out.result.valid

\* C2: Row ordering.  A result is emitted only on a row at or below the row
\* where the clock was seen: clock row <= row number.
C2_RowOrdering == out.result.valid => clockRow <= call.rowNumber

\* C3: Start-edge alignment gate.  A data track whose start lies within
\* pixelTolerance of the clock's start (the distance pixelTolerance itself
\* included) is not rejected by the alignment check.
C3_AlignmentInclusive ==
    out.why = "misaligned" => Abs(out.xStart - clockPixelsInFront) > pixelTolerance

\* The text of the fields: "DX1-DX2" and, with a half-frame number,
\* "/frame" with "A" for an odd half frame.
ExpectedText(hf, dx1, dx2, half) ==
    ToString(dx1) \o "-" \o ToString(dx2)
      \o (IF hf THEN "/" \o ToString(half \div 2) \o (IF half % 2 = 1 THEN "A" ELSE "")
          ELSE "")

WellFormed(in) == in.flip = -1 /\ in.tweak = NoTweak /\ in.stop = 1

\* C4: Decoding correctness.  Every well-formed data track aligned to the
\* clock, with a product number in 1..127, yields a result whose text is the
\* canonical text of its fields.
C4_DecodingCorrect ==
    (AlignedData /\ WellFormed(Input) /\ Input.dx1 \in 1..127)
        => /\ out.result.valid
           /\ out.result.text = ExpectedText(Input.hf, Input.dx1, Input.dx2, Input.half)

\* the sum of bits from..to (inclusive) of a bit vector indexed from 0
BitSum(b, from, to) == Cardinality({i \in from..to : b[i + 1]})

\* C5: Parity law.  A result is returned only if the recovered vector has the
\* payload length L and the sum of its bits 0..L-3 modulo 2 equals bit L-2;
\* no vector that differs from an accepted one in a single bit of 0..L-2 is
\* accepted, and a data track that is a well-formed one with one of its bits
\* 1..L-2 flipped yields no result.
C5_ParityLaw ==
    /\ out.result.valid =>
          LET b == out.signal_data
              L == signalSize(containsHFNumber)
          IN  /\ Len(b) = L
              /\ BitSum(b, 0, L - 3) % 2 = (IF b[L - 1] THEN 1 ELSE 0)
              /\ \A i \in 0..(L - 2) : validate(Flip(b, i), containsHFNumber) # "ok"
    /\ (AlignedData /\ Input.tweak = NoTweak /\ Input.stop = 1
          /\ Input.flip \in 1..(signalSize(Input.hf) - 2))
         => ~out.result.valid

\* C5 witness: a track with one payload bit flipped passed every check before
\* the parity check and was rejected there.
C5_Witness ==
    /\ AlignedData /\ Input.flip \in 1..(signalSize(Input.hf) - 2)
    /\ out.why = "parity" /\ ~out.result.valid

\* C6: Separator enforcement.  The bits that must be false are 0 and 8, 20
\* and 22 with a half-frame number, 14 without: a vector is rejected by the
\* separator check only if one of these is true.
C6_SeparatorBits ==
    out.why = "separator" =>
        LET b == out.signal_data
        IN  \/ at(b, 0) \/ at(b, 8)
            \/ containsHFNumber /\ (at(b, 20) \/ at(b, 22))
            \/ ~containsHFNumber /\ at(b, 14)

\* raw / per rounded to the nearest integer, exact halves up
RoundHalfUp(raw, per) == (2 * raw + per) \div (2 * per)

\* C7: Bit-width rounding.  The unit count of every consumed run is
\* raw / per_bar_raw_width rounded to nearest, exact halves rounding up.
C7_RoundHalfUp ==
    \A i \in 1..Len(out.runs) : out.runs[i][2] = RoundHalfUp(out.runs[i][1], out.per)

\* C8: No state change on failure.  A call that returns no result leaves the
\* state as it was, unless its row carries a clock and the state it leaves is
\* the record of that clock.
C8_NoStateChangeOnFailure ==
    [][~out'.result.valid =>
          \/ UNCHANGED state
          \/ LET f == findClock(RowView(RowOf(call'.in)))
             IN  /\ isValid(f.clock)
                 /\ foundClock' /\ containsHFNumber' = f.hf
                 /\ clockPixelsInFront' = pixelsInFront(f.clock)
                 /\ pixelTolerance' = clockTolerance(f.clock)]_vars

\* C8 witness: with a clock recorded, a call on a data track went as far as
\* the checks on the bit vector and returned nothing.
C8_Witness ==
    /\ foundClock /\ Called /\ Input.kind = "data"
    /\ out.why \in {"separator", "clock", "parity", "product"}
    /\ ~out.result.valid

\* C9: Clock refinement.  When a row carries a clock whose start lies within
\* the tolerance of the recorded clock, the record becomes that of the new
\* clock.
C9_ClockRefinement ==
    [][LET f == findClock(RowView(RowOf(call'.in)))
       IN  (/\ foundClock
            /\ isValid(f.clock)
            /\ Abs(pixelsInFront(f.clock) - clockPixelsInFront) <= pixelTolerance)
           => /\ foundClock'
              /\ containsHFNumber' = f.hf
              /\ clockPixelsInFront' = pixelsInFront(f.clock)
              /\ pixelTolerance' = clockTolerance(f.clock)]_vars

\* the element of a set of positions closest to x, the lower one on a tie
Nearest(S, x) ==
    CHOOSE c \in S : \A o \in S : \/ Abs(c - x) < Abs(o - x)
                                  \/ Abs(c - x) = Abs(o - x) /\ c <= o

\* C10: Nearest-clock determinism.  Once clocks have been seen at two
\* positions, a data track is evaluated against the clock closest to its start.
C10_NearestClock ==
    (Cardinality(clocksShown) >= 2 /\ Called /\ Input.kind = "data" /\ out.xStart >= 0)
        => clockPixelsInFront = Nearest(clocksShown, out.xStart)

\* the vector of the clock track read as data
ClockAsData == <<FALSE, TRUE, FALSE, TRUE, FALSE, TRUE, FALSE, TRUE, FALSE, TRUE, FALSE, TRUE,
                 FALSE, TRUE, FALSE, TRUE, TRUE, TRUE, FALSE, FALSE, FALSE, FALSE, FALSE>>

\* C11: Clock-as-data rejection.  With an HF clock recorded, a call whose
\* recovered vector is 0,1,0,1,0,1,0,1,0,1,0,1,0,1,0,1,1,1,0,0,0,0,0 returns
\* no result, whatever the row number and the recorded clock.
C11_ClockAsDataRejected ==
    (containsHFNumber /\ out.signal_data = ClockAsData) => ~out.result.valid

\* C11 witness: the vector passed the stop guard and the separator check and
\* was refused as the clock.
C11_Witness ==
    /\ containsHFNumber /\ out.signal_data = ClockAsData
    /\ out.why = "clock" /\ ~out.result.valid

\* the number written MSB first in bits from..to (inclusive) of a vector
\* indexed from 0
RECURSIVE BitsValue(_, _, _)
BitsValue(b, from, to) ==
    IF from > to THEN 0
    ELSE 2 * BitsValue(b, from, to - 1) + (IF b[to + 1] THEN 1 ELSE 0)

\* C12: Nonzero product.  Every emitted result has a product number (bits
\* 1..7) in 1..127, and a data track whose product number is 0 yields no
\* result.
C12_NonzeroProduct ==
    /\ out.result.valid => BitsValue(out.signal_data, 1, 7) \in 1..127
    /\ (AlignedData /\ WellFormed(Input) /\ Input.dx1 = 0) => ~out.result.valid

\* C12 witness: a well-formed track with product number 0 passed every other
\* check and was rejected for its product number.
C12_Witness ==
    /\ AlignedData /\ WellFormed(Input) /\ Input.dx1 = 0
    /\ out.why = "product" /\ ~out.result.valid

\* C13: Exact coverage.  A result is returned only if the unit counts of the
\* consumed runs sum to exactly L.
C13_ExactCoverage ==
    out.result.valid => out.signal_length = signalSize(containsHFNumber)

\* C14: Stop-edge alignment gate.  A result is returned only if the right edge
\* of the stop guard lies within pixelTolerance of the clock's right edge.
C14_StopEdgeAligned ==
    out.result.valid => Abs(out.result.xStop - clockStop) <= pixelTolerance

\* the nominal unit count of the recorded clock
ClockUnitLength == IF containsHFNumber THEN CLOCK_PATTERN_HF.sum ELSE CLOCK_PATTERN_NO_HF.sum

\* C15: Tolerance derivation.  The tolerance stored for a detected clock is
\* (x_stop - x_start) / clock_unit_length x 0.5, with 31 units for an HF clock
\* and 23 for a non-HF clock: the stored integer is less than one pixel away
\* from that value.
C15_ToleranceDerivation ==
    foundClock =>
        Abs(2 * ClockUnitLength * pixelTolerance - (clockStop - clockPixelsInFront))
            < 2 * ClockUnitLength

\* the bits of runs 1..n of alternating colour, the first one white
RECURSIVE Alternating(_, _)
Alternating(runs, n) ==
    IF n = 0 THEN <<>>
    ELSE Alternating(runs, n - 1) \o Repeat(n % 2 = 0, runs[n][2])

FirstBits(s, n) == IF Len(s) <= n THEN s ELSE SubSeq(s, 1, n)

\* the call went through the whole recovery loop
LoopCompleted == out.why \in {"nostop", "size", "separator", "clock", "parity", "product", "ok"}

\* C16: Bit-vector bound.  The bit vector never holds more than L bits, and
\* holds the first L bits of the consumed runs, which alternate in colour
\* starting with white; when the loop exits normally it holds exactly L bits
\* and its bit 0 is false.
C16_BitVectorBound ==
    LET L == signalSize(containsHFNumber)
    IN  /\ Len(out.signal_data) <= L
        /\ out.signal_data = FirstBits(Alternating(out.runs, Len(out.runs)), L)
        /\ LoopCompleted => Len(out.signal_data) = L /\ ~out.signal_data[1]

\* C16 witness: the last run was oversized (the unit counts sum to more than
\* L) and the loop exited normally with exactly L bits.
C16_Witness ==
    /\ LoopCompleted
    /\ out.signal_length > signalSize(containsHFNumber)
    /\ Len(out.signal_data) = signalSize(containsHFNumber)

\* the exclusive or of the first n bits
RECURSIVE XorBits(_, _)
XorBits(b, n) == IF n = 0 THEN FALSE ELSE XorBits(b, n - 1) # b[n]

\* C17: Parity formulations agree.  For a vector of 15 or of 23 bits the
\* check accepts exactly when the exclusive or of bits 0..L-2 is zero, and
\* inverting the last bit L-1 leaves the decision as it is.
C17_ParityFormulations ==
    LET b == out.signal_data
        L == Len(b)
    IN  /\ L \in {15, 23}
        /\ out.why \in {"ok", "parity"}
        /\ (out.why = "ok") <=> ~XorBits(b, L - 1)
        /\ parityHolds(Flip(b, L - 1)) <=> (out.why = "ok")

\* C17 witness: a vector of 23 bits with the last bit and two of the first
\* 22 bits set was accepted.
C17_Witness ==
    /\ Len(out.signal_data) = 23
    /\ out.signal_data[23]
    /\ BitSum(out.signal_data, 0, 21) = 2
    /\ out.why = "ok"

\* the unit counts of runs 1..n added up
RECURSIVE RunUnits(_, _)
RunUnits(runs, n) == IF n = 0 THEN 0 ELSE RunUnits(runs, n - 1) + runs[n][2]

\* C18: Bit recovery terminates.  The loop looks at no more than L runs:
\* every run it consumes adds at least one unit to signal_length, a run of
\* zero units is the last one looked at and ends the call without a result,
\* the loop goes on until signal_length has reached L, and run i of the loop
\* is the i-th run after the start pattern.
C18_RecoveryTerminates ==
    LET L        == signalSize(containsHFNumber)
        n        == Len(out.runs)
        consumed == IF out.why = "zero" THEN n - 1 ELSE n
    IN  /\ n <= L
        /\ \A i \in 1..consumed : out.runs[i][2] >= 1
        /\ out.why = "zero" => n >= 1 /\ out.runs[n][2] = 0 /\ ~out.result.valid
        /\ out.signal_length = RunUnits(out.runs, n)
        /\ out.signal_length >= consumed
        /\ out.why \in {"short", "zero"} => out.signal_length < L
        /\ LoopCompleted => out.signal_length >= L
        /\ (Called /\ Input.kind = "data" /\ out.xStart = Input.x0)
              => \A i \in 1..n : out.runs[i][1] = RowOf(Input)[1 + START_PATTERN_SIZE + i]

\* C18 witness: the loop consumed several runs and then met a run of zero
\* units, which ended the call.
C18_Witness ==
    /\ out.why = "zero"
    /\ Len(out.runs) > 1
    /\ out.signal_length > 0
    /\ ~out.result.valid

\* C19: Clock state is latched.  containsHFNumber is set only together with
\* foundClock, and from the call that sets foundClock on no call changes
\* foundClock, containsHFNumber, clockPixelsInFront or pixelTolerance.
C19_ClockLatched ==
    /\ [](containsHFNumber => foundClock)
    /\ [][foundClock => UNCHANGED state]_vars

\* C19 witness: with a clock recorded, the last row carried a clock at another
\* position, and the record is still that of the first clock.
C19_Witness ==
    /\ foundClock /\ Called /\ Input.kind = "clock"
    /\ Input.x0 # clockPixelsInFront
    /\ Cardinality(clocksShown) = 2

====
